---- MODULE Spec2Model ----
(***************************************************************************)
(* Model of the document ranking server:                                   *)
(*   server/services/retrieval.py        the retrieval graph, rrf_score    *)
(*                                       and retrieval_service             *)
(*   server/services/citationNetwork.py  CitationNetwork                   *)
(*   server/main.py                      the /search handler               *)
(*                                                                         *)
(* The specifications share the variables:                                 *)
(*   Spec          one search request, from the call of retrieval_service  *)
(*                 (directly, or by the /search handler) to its end        *)
(*   SpecCitation  a CitationNetwork object: building and citation counts  *)
(*   SpecPageRank  a CitationNetwork object: building and scoring          *)
(*   SpecRRF       calls of the pure function rrf_score                    *)
(*   SpecSmallNetwork  the three-paper network of the tests, scored        *)
(*   SpecApi       one GET request to the server                           *)
(*   SpecConcurrent  two search requests in flight at the same time        *)
(***************************************************************************)
EXTENDS Integers, Sequences, FiniteSets, TLC

VARIABLES
    \* ---- one retrieval request (retrieval.py, main.py)
    corpus,            \* the vector store's ranked answer list for the query
    caller,            \* who called retrieval_service
    k,                 \* RetrievalState["k"]
    k_docs,            \* RetrievalState["k_docs"]
    expanded_k,        \* RetrievalState["expanded_k"] (Unset until expand_k ran)
    retrieved_chunks,  \* RetrievalState["retrieved_chunks"]
    documents,         \* RetrievalState["documents"]
    pc,                \* the node of the graph to run next, or how the request ended
    error,             \* the exception that ended the request, or "none"
    steps,             \* super-steps of the graph executed so far
    searches,          \* breadths of the similarity searches issued so far
    result,            \* what retrieval_service returned
    response,          \* what the /search handler answered
    \* ---- a CitationNetwork object (citationNetwork.py)
    nodes,             \* self.graph.nodes, in insertion order
    edges,             \* self.graph.edges, as (citing, cited) pairs
    paper_years,       \* self.paper_years
    edge_attr,         \* the attributes self.graph holds for each of its edges
    weighted_graph,    \* the edge weights of weighted_graph in the last scoring
    call,              \* the last method called (and the arguments the claims need)
    ret,               \* what that call returned
    \* ---- rrf_score (retrieval.py)
    ranked_lists,      \* the argument ranked_lists of the last call
    rrf_k,             \* the argument k of the last call
    rrf_scores,        \* what the last call returned
    rrf_before,        \* what the call before it returned
    promoted,          \* the ID whose rank was improved between the two calls
    \* ---- the HTTP surface (main.py)
    request_path,      \* the path of the GET request
    status_code,       \* the status of the answer (Unset until answered)
    \* ---- search requests in flight at the same time (main.py, retrieval.py)
    answers,           \* the vector store's ranked answer list for each query
    inflight           \* the retrieval state invoke() holds for each request

rvars == <<corpus, caller, k, k_docs, expanded_k, retrieved_chunks, documents,
           pc, error, steps, searches, result, response>>
cvars == <<nodes, edges, paper_years, edge_attr, weighted_graph, call, ret>>
fvars == <<ranked_lists, rrf_k, rrf_scores, rrf_before, promoted>>
hvars == <<request_path, status_code>>
qvars == <<answers, inflight>>
vars == <<rvars, cvars, fvars, hvars, qvars>>

----------------------------------------------------------------------------
(* Bounds of the model *)

\* longest answer list the vector store holds for the query
MaxCorpus == 3
\* largest k_chunks a direct caller of retrieval_service passes
MaxK == 2
\* largest k_docs a direct caller of retrieval_service passes
MaxKDocs == 2
\* The compiled graph is invoked without a step ceiling of its own
\* (retrieval.py:139); the graph engine aborts a run that has not reached END
\* after its recursion limit of super-steps.  The model uses a small limit.
RecursionLimit == 7
\* most ranked lists passed to rrf_score
MaxLists == 2
\* largest k passed to rrf_score
MaxRrfK == 3
\* most citation edges in the network
MaxEdges == 2
\* most entries of the paper_metadata passed to build_from_pdfs
MaxMeta == 1
\* most references of one entry of paper_metadata
MaxRefs == 2
\* largest n passed to get_most_cited_papers
MaxN == 3

\* doc_id values of the chunks' metadata; NoDocId is a chunk without the key
DocIds == {"d1", "d2", "unknown"}
NoDocId == "<missing>"
\* similarity distances (lower is more similar)
Distances == {1, 2}
\* IDs that occur in the ranked lists passed to rrf_score
Ids == {"doc1", "doc2", "doc3"}
\* paper IDs
Papers == {"A", "B", "C"}
\* publication years passed to add_paper and held by paper_metadata
Years == {2023}
\* values of the argument current_year (datetime.now().year by default)
CurrentYears == {2020, 2026}

(* Program constants *)
ExpandStep == 25
SearchKChunks == 5
SearchKDocs == 3
DefaultRrfK == 60

Unset == 0
\* the year argument None (add_paper treats None and 0 alike: "if year:")
NoYear == 0
NoValue == "<none>"
\* a variable holding what a call returned: NoReturn before the call returned,
\* Returned(v) after it returned v
NoReturn == <<>>
Returned(v) == <<v>>

----------------------------------------------------------------------------
(* Exact fractions <<numerator, denominator>>, denominator > 0 *)

FracZero == <<0, 1>>
FracAdd(a, b) == <<a[1] * b[2] + b[1] * a[2], a[2] * b[2]>>
FracLess(a, b) == a[1] * b[2] < b[1] * a[2]
FracEq(a, b) == a[1] * b[2] = b[1] * a[2]

Min2(a, b) == IF a <= b THEN a ELSE b

\* the function f as an explicit table (TLC otherwise evaluates the defining
\* expression anew at each application)
Table(f) == f @@ [x \in {} |-> 0]

\* Python's sorted(s, key=..., reverse=...): keys[i] is the key (a fraction) of
\* s[i].  The sort is stable, also with reverse=True: elements with equal keys
\* keep their order in s.  Element i is placed after every j whose key comes
\* first and after every earlier j with an equal key.
sorted(s, keys, reverse) ==
    LET n == Len(s)
        first(j, i) == IF reverse THEN FracLess(keys[i], keys[j])
                                  ELSE FracLess(keys[j], keys[i])
        pos == [i \in 1..n |->
                   1 + Cardinality({j \in 1..n :
                           first(j, i) \/ (~first(i, j) /\ j < i)})]
    IN  [r \in 1..n |-> s[CHOOSE i \in 1..n : pos[i] = r]]

\* Python's s[:n] for n >= 0
Take(s, n) == SubSeq(s, 1, Min2(n, Len(s)))

----------------------------------------------------------------------------
(* retrieval.py: the vector store *)

\* A chunk is a Document (its content id and its doc_id metadata); the store
\* answers with (chunk, distance) pairs, best match first.
Chunk(i, d) == [id |-> i, doc_id |-> d]

Corpora ==
    UNION { { [i \in 1..n |-> <<Chunk(i, c[i].doc_id), c[i].score>>] :
                c \in { f \in [1..n -> [doc_id : DocIds \cup {NoDocId},
                                        score : Distances]] :
                          \A i \in 1..n : \A j \in 1..n :
                              i < j => f[i].score <= f[j].score } } :
            n \in 0..MaxCorpus }

\* vector_store.similarity_search_with_score(query, n): the n best matches
similarity_search_with_score(n) == Take(corpus, n)

----------------------------------------------------------------------------
(* retrieval.py: the nodes of the retrieval graph *)

\* chunk.metadata.get("doc_id")
MetadataDocId(entry) == entry[1].doc_id

\* (mutant of should_expand: "<=" for "<")
should_expand_le(chunks, kdocs) ==
    LET unique_docs == { MetadataDocId(chunks[i]) : i \in 1..Len(chunks) }
    IN  IF Cardinality(unique_docs) <= kdocs THEN "expand" ELSE "enough"

\* should_expand: "expand" while fewer than k_docs distinct doc_ids were found
should_expand(chunks, kdocs) ==
    LET unique_docs == { MetadataDocId(chunks[i]) : i \in 1..Len(chunks) }
    IN  IF Cardinality(unique_docs) < kdocs THEN "expand" ELSE "enough"

\* the conditional edges out of initial_retrieval and expanded_retrieval
ConditionalEdge(route) ==
    IF route = "expand" THEN "expand_k" ELSE "aggregate_documents"

\* expand_k: the new breadth
expand_k_value(kk) == kk + ExpandStep

\* (mutant of combined_chunks: chunks already held are not added again)
combined_chunks_dedup(chunks, new_chunks) ==
    LET IsNew(entry) == \A i \in 1..Len(chunks) : chunks[i] # entry
    IN  chunks \o SelectSeq(new_chunks, IsNew)

\* combined_chunks = state["retrieved_chunks"] + new_chunks
combined_chunks(chunks, new_chunks) == chunks \o new_chunks

\* list.append(*args): Python's list.append takes exactly one argument
list_append(lst, args) ==
    IF Len(args) = 1
    THEN [raised |-> "none", value |-> Append(lst, args[1])]
    ELSE [raised |-> "TypeError", value |-> lst]

\* doc_map[doc_id] of a defaultdict(list): the entry is created when missing
DocIndex(doc_map, d) ==
    IF \E i \in 1..Len(doc_map) : doc_map[i].doc_id = d
    THEN CHOOSE i \in 1..Len(doc_map) : doc_map[i].doc_id = d
    ELSE Len(doc_map) + 1

WithDefault(doc_map, d) ==
    IF DocIndex(doc_map, d) <= Len(doc_map) THEN doc_map
    ELSE Append(doc_map, [doc_id |-> d, chunks |-> <<>>])

\* chunk.metadata.get("doc_id", "unknown")
DocIdOrUnknown(entry) ==
    IF entry[1].doc_id = NoDocId THEN "unknown" ELSE entry[1].doc_id

\* the loop of aggregate_documents from chunk i on:
\*     doc_map[doc_id].append(chunk, score)
RECURSIVE aggregate_loop(_, _, _)
aggregate_loop(chunks, i, doc_map) ==
    IF i > Len(chunks) THEN [raised |-> "none", documents |-> doc_map]
    ELSE LET d == DocIdOrUnknown(chunks[i])
             m == WithDefault(doc_map, d)
             at == DocIndex(m, d)
             r == list_append(m[at].chunks, <<chunks[i][1], chunks[i][2]>>)
         IN  IF r.raised # "none"
             THEN [raised |-> r.raised, documents |-> <<>>]
             ELSE aggregate_loop(chunks, i + 1,
                                 [m EXCEPT ![at].chunks = r.value])

aggregate_documents_value(chunks) == aggregate_loop(chunks, 1, <<>>)

----------------------------------------------------------------------------
(* retrieval.py: rrf_score and retrieval_service *)

\* scores[doc_id] of a defaultdict(float)
ScoreOf(scores, id) == IF id \in DOMAIN scores THEN scores[id] ELSE FracZero

\* (mutant of rrf_add: "=" for "+=")
rrf_add_assign(scores, id, kk, rank) ==
    [x \in (DOMAIN scores) \cup {id} |->
        IF x = id THEN <<1, kk + rank>> ELSE scores[x]]

\* scores[doc_id] += 1 / (k + rank)
rrf_add(scores, id, kk, rank) ==
    [x \in (DOMAIN scores) \cup {id} |->
        IF x = id THEN FracAdd(ScoreOf(scores, id), <<1, kk + rank>>)
        ELSE scores[x]]

\* (mutant of enumerate_rank: enumerate's default start=0)
enumerate_rank_from_zero(i) == i - 1

\* enumerate(ranked, start=1): the rank of the element at (1-based) position i
enumerate_rank(i) == i

\* for rank, doc_id in enumerate(ranked, start=1): ...   (from position i on)
RECURSIVE rrf_inner(_, _, _, _)
rrf_inner(ranked, i, kk, scores) ==
    IF i > Len(ranked) THEN scores
    ELSE rrf_inner(ranked, i + 1, kk,
                   rrf_add(scores, ranked[i], kk, enumerate_rank(i)))

\* for ranked in ranked_lists: ...   (from list l on)
RECURSIVE rrf_outer(_, _, _, _)
rrf_outer(lists, l, kk, scores) ==
    IF l > Len(lists) THEN scores
    ELSE rrf_outer(lists, l + 1, kk, rrf_inner(lists[l], 1, kk, scores))

EmptyScores == [x \in {} |-> FracZero]

rrf_score(lists, kk) == rrf_outer(lists, 1, kk, EmptyScores)

\* min(score for _, score in chunks)
MinScore(chunks) ==
    CHOOSE m \in { chunks[i][2] : i \in 1..Len(chunks) } :
        \A i \in 1..Len(chunks) : m <= chunks[i][2]

DocIdsOf(items) == [i \in 1..Len(items) |-> items[i].doc_id]

\* retrieval_service after the graph has returned.  items is
\* documents.items(), in the insertion order of the dict.
\* ranked_docs_by_count: most chunks first
ranked_docs_by_count(items) ==
    sorted(items, [i \in 1..Len(items) |-> <<Len(items[i].chunks), 1>>], TRUE)

\* ranked_docs_by_best_score: smallest distance first
ranked_docs_by_best_score(items) ==
    sorted(items, [i \in 1..Len(items) |-> <<MinScore(items[i].chunks), 1>>],
           FALSE)

\* rrf_scores = rrf_score(ranked_lists, k=rrf_k)
fused_scores(items, rrfk) ==
    rrf_score(<<DocIdsOf(ranked_docs_by_count(items)),
                DocIdsOf(ranked_docs_by_best_score(items))>>, rrfk)

\* final_ranking: highest fused score first
final_ranking(items, rrfk) ==
    sorted(items,
           [i \in 1..Len(items) |-> fused_scores(items, rrfk)[items[i].doc_id]],
           TRUE)

\* return final_ranking[:k_docs]
retrieval_service_value(items, kdocs, rrfk) ==
    Take(final_ranking(items, rrfk), kdocs)

\* main.py search(), after retrieval_service returned: results is a list, and
\* results.keys() raises AttributeError before anything else is done.
search_rest(results) == [raised |-> "AttributeError", response |-> NoReturn]

----------------------------------------------------------------------------
(* One request: Init and the steps of the graph *)

IdleCitation ==
    /\ nodes = <<>>
    /\ edges = {}
    /\ paper_years = <<>>
    /\ edge_attr = <<>>
    /\ weighted_graph = NoReturn
    /\ call = <<NoValue>>
    /\ ret = NoReturn

IdleRRF ==
    /\ ranked_lists = <<>>
    /\ rrf_k = DefaultRrfK
    /\ rrf_scores = NoReturn
    /\ rrf_before = NoReturn
    /\ promoted = NoValue

\* no HTTP request
IdleHttp ==
    /\ request_path = NoValue
    /\ status_code = Unset

\* no requests side by side
IdleConcurrent ==
    /\ answers = <<>>
    /\ inflight = <<>>

IdleRetrieval ==
    /\ corpus = <<>>
    /\ caller = NoValue
    /\ k = Unset
    /\ k_docs = Unset
    /\ expanded_k = Unset
    /\ retrieved_chunks = <<>>
    /\ documents = <<>>
    /\ pc = "idle"
    /\ error = "none"
    /\ steps = 0
    /\ searches = <<>>
    /\ result = NoReturn
    /\ response = NoReturn

\* retrieval_graph.invoke({"query": query, "k": k_chunks, "k_docs": k_docs}),
\* called by search() with k_chunks=5, k_docs=3 or by another caller
Init ==
    /\ corpus \in Corpora
    /\ caller \in {"search", "direct"}
    /\ IF caller = "search"
       THEN k = SearchKChunks /\ k_docs = SearchKDocs
       ELSE k \in 1..MaxK /\ k_docs \in 0..MaxKDocs
    /\ expanded_k = Unset
    /\ retrieved_chunks = <<>>
    /\ documents = <<>>
    /\ pc = "initial_retrieval"
    /\ error = "none"
    /\ steps = 0
    /\ searches = <<>>
    /\ result = NoReturn
    /\ response = NoReturn
    /\ IdleCitation
    /\ IdleRRF
    /\ IdleHttp
    /\ IdleConcurrent

GraphNodes ==
    {"initial_retrieval", "expand_k", "expanded_retrieval", "aggregate_documents"}

initial_retrieval ==
    /\ pc = "initial_retrieval"
    /\ steps < RecursionLimit
    /\ retrieved_chunks' = similarity_search_with_score(k)
    /\ searches' = Append(searches, k)
    /\ pc' = ConditionalEdge(should_expand(retrieved_chunks', k_docs))
    /\ steps' = steps + 1
    /\ UNCHANGED <<corpus, caller, k, k_docs, expanded_k, documents, error, result,
                   response>>
    /\ UNCHANGED <<cvars, fvars, hvars, qvars>>

expand_k ==
    /\ pc = "expand_k"
    /\ steps < RecursionLimit
    /\ expanded_k' = expand_k_value(k)
    /\ pc' = "expanded_retrieval"
    /\ steps' = steps + 1
    /\ UNCHANGED <<corpus, caller, k, k_docs, retrieved_chunks, documents, error,
                   searches, result, response>>
    /\ UNCHANGED <<cvars, fvars, hvars, qvars>>

expanded_retrieval ==
    /\ pc = "expanded_retrieval"
    /\ steps < RecursionLimit
    /\ retrieved_chunks' =
           combined_chunks(retrieved_chunks,
                           similarity_search_with_score(expanded_k))
    /\ searches' = Append(searches, expanded_k)
    /\ pc' = ConditionalEdge(should_expand(retrieved_chunks', k_docs))
    /\ steps' = steps + 1
    /\ UNCHANGED <<corpus, caller, k, k_docs, expanded_k, documents, error, result,
                   response>>
    /\ UNCHANGED <<cvars, fvars, hvars, qvars>>

aggregate_documents ==
    /\ pc = "aggregate_documents"
    /\ steps < RecursionLimit
    /\ LET r == aggregate_documents_value(retrieved_chunks)
       IN  /\ error' = r.raised
           /\ documents' = r.documents
           /\ pc' = IF r.raised = "none" THEN "END" ELSE "raised"
    /\ steps' = steps + 1
    /\ UNCHANGED <<corpus, caller, k, k_docs, expanded_k, retrieved_chunks,
                   searches, result, response>>
    /\ UNCHANGED <<cvars, fvars, hvars, qvars>>

\* the graph engine gives up: GraphRecursionError out of retrieval_graph.invoke
recursion_limit_reached ==
    /\ pc \in GraphNodes
    /\ steps = RecursionLimit
    /\ pc' = "raised"
    /\ error' = "GraphRecursionError"
    /\ UNCHANGED <<corpus, caller, k, k_docs, expanded_k, retrieved_chunks,
                   documents, steps, searches, result, response>>
    /\ UNCHANGED <<cvars, fvars, hvars, qvars>>

\* retrieval_service ranks the documents and returns; when search() called it,
\* the handler goes on with the returned list
retrieval_service_return ==
    /\ pc = "END"
    /\ result' = Returned(retrieval_service_value(documents, k_docs, DefaultRrfK))
    /\ IF caller = "search"
       THEN /\ error' = search_rest(result'[1]).raised
            /\ response' = search_rest(result'[1]).response
            /\ pc' = IF error' = "none" THEN "responded" ELSE "raised"
       ELSE /\ error' = "none"
            /\ response' = NoReturn
            /\ pc' = "returned"
    /\ UNCHANGED <<corpus, caller, k, k_docs, expanded_k, retrieved_chunks,
                   documents, steps, searches>>
    /\ UNCHANGED <<cvars, fvars, hvars, qvars>>

Next ==
    \/ initial_retrieval
    \/ expand_k
    \/ expanded_retrieval
    \/ aggregate_documents
    \/ recursion_limit_reached
    \/ retrieval_service_return

Spec == Init /\ [][Next]_vars

----------------------------------------------------------------------------
(* citationNetwork.py: CitationNetwork *)

InSeq(seq, x) == \E i \in 1..Len(seq) : seq[i] = x

\* self.graph.add_node(paper_id): a new node goes last, a known one stays
add_node(ns, p) == IF InSeq(ns, p) THEN ns ELSE Append(ns, p)

\* (mutant of add_edge_nodes: the edge is recorded without its endpoints)
add_edge_nodes_none(ns, u, v) == ns

\* self.graph.add_edge(u, v): the nodes after it (u, then v, added if missing)
add_edge_nodes(ns, u, v) == add_node(add_node(ns, u), v)

\* the network as a record
Network(ns, es, ys) == [nodes |-> ns, edges |-> es, paper_years |-> ys]

\* add_paper(paper_id, year)
add_paper_value(net, p, year) ==
    Network(add_node(net.nodes, p),
            net.edges,
            IF year # NoYear
            THEN [x \in (DOMAIN net.paper_years) \cup {p} |->
                     IF x = p THEN year ELSE net.paper_years[x]]
            ELSE net.paper_years)

\* add_citation(citing_paper, cited_paper)
add_citation_value(net, u, v) ==
    Network(add_edge_nodes(net.nodes, u, v),
            net.edges \cup {<<u, v>>},
            net.paper_years)

\* for cited in meta.get("references", []): ...   (from reference i on)
RECURSIVE build_references(_, _, _, _)
build_references(net, paper_id, refs, i) ==
    IF i > Len(refs) THEN net
    ELSE build_references(
             add_citation_value(add_paper_value(net, refs[i], NoYear),
                                paper_id, refs[i]),
             paper_id, refs, i + 1)

\* for paper_id, meta in paper_metadata.items(): ...   (from entry i on)
RECURSIVE build_from_pdfs_value(_, _, _)
build_from_pdfs_value(net, paper_metadata, i) ==
    IF i > Len(paper_metadata) THEN net
    ELSE LET meta == paper_metadata[i]
         IN  build_from_pdfs_value(
                 build_references(
                     add_paper_value(net, meta.paper_id, meta.year),
                     meta.paper_id, meta.references, 1),
                 paper_metadata, i + 1)

\* self.graph.in_degree(paper): the papers citing it
in_degree(es, p) == Cardinality({ e \in es : e[2] = p })

\* (mutant of most_cited_sorted: ascending sort, then reversed)
most_cited_sorted_reversed(degrees) ==
    LET asc == sorted(degrees,
                      [i \in 1..Len(degrees) |-> <<degrees[i][2], 1>>], FALSE)
    IN  [i \in 1..Len(asc) |-> asc[Len(asc) + 1 - i]]

\* sorted(self.graph.in_degree(), key=lambda x: x[1], reverse=True)
most_cited_sorted(degrees) ==
    sorted(degrees, [i \in 1..Len(degrees) |-> <<degrees[i][2], 1>>], TRUE)

\* get_most_cited_papers(n), n >= 0
get_most_cited_papers_value(ns, es, n) ==
    Take(most_cited_sorted([i \in 1..Len(ns) |-> <<ns[i], in_degree(es, ns[i])>>]),
         n)

----------------------------------------------------------------------------
(* citationNetwork.py: weighted_pagerank *)

RECURSIVE gcd(_, _)
gcd(a, b) == IF b = 0 THEN a ELSE gcd(b, a % b)

FracReduce(f) == LET g == gcd(f[1], f[2]) IN <<f[1] \div g, f[2] \div g>>
FracMul(a, b) == FracReduce(<<a[1] * b[1], a[2] * b[2]>>)
FracDiv(a, b) == FracReduce(<<a[1] * b[2], a[2] * b[1]>>)

\* the sum of w[x] over the x in S
RECURSIVE FracSum(_, _)
FracSum(S, w) ==
    IF S = {} THEN FracZero
    ELSE LET x == CHOOSE y \in S : TRUE
         IN  FracReduce(FracAdd(w[x], FracSum(S \ {x}, w)))

RECURSIVE IntSum(_, _)
IntSum(S, w) ==
    IF S = {} THEN 0
    ELSE LET x == CHOOSE y \in S : TRUE
         IN  w[x] + IntSum(S \ {x}, w)

\* the default arguments of weighted_pagerank
Alpha == <<85, 100>>
RecencyBoost == <<3, 2>>
SelfCitationPenalty == <<1, 5>>

\* Scores are floats in the code; the model holds them as whole multiples of
\* 1 / Scale.  nx.pagerank is called with its default tol and max_iter.
Scale == 1000000000
Tol == <<1, 1000000>>
MaxIter == 100

\* floor(x * f), for a fraction 0 <= f <= 1 with a small denominator, computed
\* without leaving 32 bits
Times(x, f) == (x \div f[2]) * f[1] + ((x % f[2]) * f[1]) \div f[2]

\* (mutant of recency_weight: the boost is applied to the base 0, not 1)
recency_weight_no_base(age) ==
    FracReduce(<<RecencyBoost[1], (1 + age) * RecencyBoost[2]>>)

\* recency_weight = 1 + (recency_boost / (1 + age))
recency_weight(age) ==
    FracReduce(<<(1 + age) * RecencyBoost[2] + RecencyBoost[1],
                 (1 + age) * RecencyBoost[2]>>)

\* the weight the loop of weighted_pagerank gives the edge (u, v)
edge_weight(u, v, ys, current_year) ==
    LET w1 == IF u = v THEN SelfCitationPenalty ELSE <<1, 1>>
    IN  IF v \in DOMAIN ys
        THEN LET d == current_year - ys[v]
                 age == IF d > 0 THEN d ELSE 0
             IN  FracMul(w1, recency_weight(age))
        ELSE w1

\* weighted_graph.add_edge(u, v, weight=weight), for every edge of self.graph
weighted_graph_edges(es, ys, current_year) ==
    Table([e \in es |-> edge_weight(e[1], e[2], ys, current_year)])

\* (mutant of graph_edge_attr: the weights are put on the edges of self.graph)
graph_edge_attr_in_place(attrs, weights) ==
    [e \in DOMAIN attrs |->
        [a \in (DOMAIN attrs[e]) \cup {"weight"} |->
            IF a = "weight" THEN weights[e] ELSE attrs[e][a]]]

\* the edge attributes of self.graph after the loop of weighted_pagerank: it
\* reads self.graph.edges() and adds to weighted_graph only
graph_edge_attr(attrs, weights) == attrs

\* (mutant of weighted_graph_nodes: every paper of the network is scored)
weighted_graph_nodes_all(ns, es) == { ns[i] : i \in 1..Len(ns) }

\* the nodes of weighted_graph: the endpoints of the edges added to it
weighted_graph_nodes(ns, es) == { e[1] : e \in es } \cup { e[2] : e \in es }

\* one iteration of nx.pagerank:
\*     x = alpha * (x @ A + sum(x[is_dangling]) * dangling_weights)
\*         + (1 - alpha) * p
\* V the nodes, prob[<<u, v>>] the weight of (u, v) over the out-weight of u
pagerank_step(V, es, prob, x) ==
    LET N == Cardinality(V)
        dangling == { n \in V : ~ \E e \in es : e[1] = n }
        danglesum == IntSum(dangling, x)
        flow == Table([e \in es |-> Times(x[e[1]], prob[e])])
    IN  Table([v \in V |->
            Times(IntSum({ e \in es : e[2] = v }, flow) + danglesum \div N,
                  Alpha)
            + (Scale - Times(Scale, Alpha)) \div N])

Abs(a) == IF a < 0 THEN -a ELSE a

\* for _ in range(max_iter): ... if err < N * tol: return x
RECURSIVE pagerank_iterate(_, _, _, _, _)
pagerank_iterate(V, es, prob, x, iter) ==
    IF iter >= MaxIter
    THEN [raised |-> "PowerIterationFailedConvergence", scores |-> x]
    ELSE LET y == pagerank_step(V, es, prob, x)
             err == IntSum(V, [v \in V |-> Abs(y[v] - x[v])])
         IN  IF err < Cardinality(V) * Times(Scale, Tol)
             THEN [raised |-> "none", scores |-> y]
             ELSE pagerank_iterate(V, es, prob, y, iter + 1)

\* nx.pagerank(weighted_graph, alpha=alpha, weight="weight"); weight[e] is
\* the weight of edge e
pagerank(V, es, weight) ==
    IF V = {} THEN [raised |-> "none", scores |-> [v \in {} |-> 0]]
    ELSE LET out == Table([u \in V |->
                              FracSum({ e \in es : e[1] = u }, weight)])
             prob == Table([e \in es |-> FracDiv(weight[e], out[e[1]])])
         IN  pagerank_iterate(V, es, prob,
                              Table([v \in V |-> Scale \div Cardinality(V)]), 0)

\* (mutant of weighted_pagerank_value: the edges of weighted_graph point from
\* the cited paper to the citing one)
weighted_pagerank_value_reversed(ns, es, ys, current_year) ==
    LET rev == { <<e[2], e[1]>> : e \in es }
    IN  pagerank(weighted_graph_nodes(ns, es), rev,
                 Table([e \in rev |-> edge_weight(e[2], e[1], ys, current_year)]))

\* weighted_pagerank(current_year=...) with the default alpha, recency_boost
\* and self_citation_penalty
weighted_pagerank_value(ns, es, ys, current_year) ==
    pagerank(weighted_graph_nodes(ns, es), es,
             weighted_graph_edges(es, ys, current_year))

----------------------------------------------------------------------------
(* A CitationNetwork object (specification SpecCitation) *)

YearArgs == Years \cup {NoYear}

RefLists == UNION { [1..n -> Papers] : n \in 0..MaxRefs }

\* paper_metadata: a dict, so no paper_id twice; a missing "year" is None
MetadataSet ==
    UNION { { m \in [1..n -> [paper_id : Papers, year : YearArgs,
                              references : RefLists]] :
                \A i \in 1..n : \A j \in 1..n :
                    m[i].paper_id = m[j].paper_id => i = j } :
            n \in 0..MaxMeta }

ThisNetwork == Network(nodes, edges, paper_years)

\* the attributes of the edges es after add_edge(u, v) calls without
\* attributes: a new edge has none, a known edge keeps its own
NoAttributes == [a \in {} |-> FracZero]

edge_attr_after(attrs, es) ==
    [e \in es |-> IF e \in DOMAIN attrs THEN attrs[e] ELSE NoAttributes]

\* the network after one of the building methods; weighted_graph is a local
\* of weighted_pagerank and gone
Becomes(net) ==
    /\ nodes' = net.nodes
    /\ edges' = net.edges
    /\ paper_years' = net.paper_years
    /\ edge_attr' = edge_attr_after(edge_attr, net.edges)
    /\ weighted_graph' = NoReturn

\* cn = CitationNetwork()
InitCitation ==
    /\ IdleCitation
    /\ IdleRetrieval
    /\ IdleRRF
    /\ IdleHttp
    /\ IdleConcurrent

add_paper ==
    \E p \in Papers : \E year \in YearArgs :
        /\ Becomes(add_paper_value(ThisNetwork, p, year))
        /\ call' = <<"add_paper">>
        /\ ret' = NoReturn
        /\ UNCHANGED <<rvars, fvars, hvars, qvars>>

add_citation ==
    \E u \in Papers : \E v \in Papers :
        /\ Cardinality(edges \cup {<<u, v>>}) <= MaxEdges
        /\ Becomes(add_citation_value(ThisNetwork, u, v))
        /\ call' = <<"add_citation">>
        /\ ret' = NoReturn
        /\ UNCHANGED <<rvars, fvars, hvars, qvars>>

\* build_from_pdfs(pdf_files, paper_metadata); every caller builds a network
\* it has just constructed
build_from_pdfs ==
    \E paper_metadata \in MetadataSet :
        /\ nodes = <<>>
        /\ LET net == build_from_pdfs_value(ThisNetwork, paper_metadata, 1)
           IN  /\ Cardinality(net.edges) <= MaxEdges
               /\ Becomes(net)
        /\ call' = <<"build_from_pdfs", paper_metadata>>
        /\ ret' = NoReturn
        /\ UNCHANGED <<rvars, fvars, hvars, qvars>>

\* scores = cn.weighted_pagerank(); current_year is datetime.now().year
weighted_pagerank ==
    \E current_year \in CurrentYears :
        /\ LET r == weighted_pagerank_value(nodes, edges, paper_years,
                                            current_year)
           IN  ret' = IF r.raised = "none" THEN Returned(r.scores)
                      ELSE <<"raised", r.raised>>
        /\ weighted_graph' =
               Returned(weighted_graph_edges(edges, paper_years, current_year))
        /\ edge_attr' = graph_edge_attr(edge_attr, weighted_graph'[1])
        /\ call' = <<"weighted_pagerank", current_year>>
        /\ UNCHANGED <<nodes, edges, paper_years>>
        /\ UNCHANGED <<rvars, fvars, hvars, qvars>>

get_most_cited_papers ==
    \E n \in 0..MaxN :
        /\ ret' = Returned(get_most_cited_papers_value(nodes, edges, n))
        /\ call' = <<"get_most_cited_papers", n>>
        /\ weighted_graph' = NoReturn
        /\ UNCHANGED <<nodes, edges, paper_years, edge_attr>>
        /\ UNCHANGED <<rvars, fvars, hvars, qvars>>

\* the network is built, and its papers are ranked by citation count
NextCitation ==
    \/ add_paper
    \/ add_citation
    \/ build_from_pdfs
    \/ get_most_cited_papers

SpecCitation == InitCitation /\ [][NextCitation]_vars

\* the network is built, and its papers are scored
NextPageRank ==
    \/ add_paper
    \/ add_citation
    \/ build_from_pdfs
    \/ weighted_pagerank

SpecPageRank == InitCitation /\ [][NextPageRank]_vars

----------------------------------------------------------------------------
(* The small network of the tests (specification SpecSmallNetwork) *)

\* publication years of the papers of the small network
SmallYears == {2015, 2019, 2023}

\* the paper_metadata of the fixture small_citation_network, A -> {B, C},
\* B -> {C}, C -> {}, with the years ya, yb, yc (NoYear: no "year" entry)
small_paper_metadata(ya, yb, yc) ==
    << [paper_id |-> "A", year |-> ya, references |-> <<"B", "C">>],
       [paper_id |-> "B", year |-> yb, references |-> <<"C">>],
       [paper_id |-> "C", year |-> yc, references |-> <<>>] >>

\* cn = CitationNetwork(); cn.build_from_pdfs(pdf_files=[], paper_metadata=...)
small_citation_network ==
    \E ya \in SmallYears \cup {NoYear} :
    \E yb \in SmallYears \cup {NoYear} :
    \E yc \in SmallYears \cup {NoYear} :
        /\ nodes = <<>>
        /\ Becomes(build_from_pdfs_value(ThisNetwork,
                                         small_paper_metadata(ya, yb, yc), 1))
        /\ call' = <<"build_from_pdfs", small_paper_metadata(ya, yb, yc)>>
        /\ ret' = NoReturn
        /\ UNCHANGED <<rvars, fvars, hvars, qvars>>

\* cn.add_citation(paper, paper): a self-citation (test_self_citation_penalty)
add_self_citation ==
    \E p \in Papers :
        /\ InSeq(nodes, p)
        /\ <<p, p>> \notin edges
        /\ Becomes(add_citation_value(ThisNetwork, p, p))
        /\ call' = <<"add_citation">>
        /\ ret' = NoReturn
        /\ UNCHANGED <<rvars, fvars, hvars, qvars>>

NextSmallNetwork ==
    \/ small_citation_network
    \/ add_self_citation
    \/ weighted_pagerank

SpecSmallNetwork == InitCitation /\ [][NextSmallNetwork]_vars

----------------------------------------------------------------------------
(* Calls of rrf_score (specification SpecRRF) *)

\* ranked lists of unique IDs
UniqueLists ==
    UNION { { l \in [1..n -> Ids] :
                \A i \in 1..n : \A j \in 1..n : l[i] = l[j] => i = j } :
            n \in 0..Cardinality(Ids) }

ListCollections == UNION { [1..n -> UniqueLists] : n \in 0..MaxLists }

\* ranked with the element at position from moved up to position to <= from
MoveUp(ranked, from, to) ==
    [i \in 1..Len(ranked) |->
        IF i < to \/ i > from THEN ranked[i]
        ELSE IF i = to THEN ranked[from]
        ELSE ranked[i - 1]]

InitRRF ==
    /\ ranked_lists \in ListCollections
    /\ rrf_k \in 1..MaxRrfK
    /\ rrf_scores = NoReturn
    /\ rrf_before = NoReturn
    /\ promoted = NoValue
    /\ IdleRetrieval
    /\ IdleCitation
    /\ IdleHttp
    /\ IdleConcurrent

\* scores = rrf_score(ranked_lists, k)
rrf_call ==
    /\ rrf_scores = NoReturn
    /\ rrf_scores' = Returned(rrf_score(ranked_lists, rrf_k))
    /\ UNCHANGED <<ranked_lists, rrf_k, rrf_before, promoted>>
    /\ UNCHANGED <<rvars, cvars, hvars, qvars>>

\* a second call, on the lists of the call before with one ID moved to a
\* strictly better rank in one list
rrf_call_promoted ==
    /\ rrf_scores # NoReturn
    /\ \E l \in 1..Len(ranked_lists) :
       \E from \in 1..Len(ranked_lists[l]) :
       \E to \in 1..(from - 1) :
          /\ ranked_lists' =
                 [ranked_lists EXCEPT ![l] = MoveUp(ranked_lists[l], from, to)]
          /\ promoted' = ranked_lists[l][from]
    /\ rrf_before' = rrf_scores
    /\ rrf_scores' = Returned(rrf_score(ranked_lists', rrf_k))
    /\ UNCHANGED rrf_k
    /\ UNCHANGED <<rvars, cvars, hvars, qvars>>

NextRRF ==
    \/ rrf_call
    \/ rrf_call_promoted

SpecRRF == InitRRF /\ [][NextRRF]_vars

----------------------------------------------------------------------------
(* main.py: the HTTP surface (specification SpecApi) *)

\* paths a client asks for
Paths == {"/", "/health", "/search"}

\* the path operations registered on app: @app.get("/") and @app.get("/search")
route_table ==
    [p \in {"/", "/search"} |-> IF p = "/" THEN "health_check" ELSE "search"]

\* health_check()
health_check_value == [status |-> "ok"]

\* the framework's answer to a path without a path operation
NotFound == [detail |-> "Not Found"]

\* a GET request arrives
InitApi ==
    /\ request_path \in Paths
    /\ status_code = Unset
    /\ corpus \in Corpora
    /\ caller = NoValue
    /\ k = Unset
    /\ k_docs = Unset
    /\ expanded_k = Unset
    /\ retrieved_chunks = <<>>
    /\ documents = <<>>
    /\ pc = "routing"
    /\ error = "none"
    /\ steps = 0
    /\ searches = <<>>
    /\ result = NoReturn
    /\ response = NoReturn
    /\ IdleCitation
    /\ IdleRRF
    /\ IdleConcurrent

\* the framework picks the path operation: health_check answers at once,
\* search calls retrieval_service(query, k_chunks=5, k_docs=3), and a path
\* without a path operation is answered 404
dispatch ==
    /\ pc = "routing"
    /\ IF request_path \notin DOMAIN route_table
       THEN /\ status_code' = 404
            /\ response' = Returned(NotFound)
            /\ pc' = "answered"
            /\ UNCHANGED <<caller, k, k_docs>>
       ELSE IF route_table[request_path] = "health_check"
       THEN /\ status_code' = 200
            /\ response' = Returned(health_check_value)
            /\ pc' = "answered"
            /\ UNCHANGED <<caller, k, k_docs>>
       ELSE /\ caller' = "search"
            /\ k' = SearchKChunks
            /\ k_docs' = SearchKDocs
            /\ pc' = "initial_retrieval"
            /\ UNCHANGED <<status_code, response>>
    /\ UNCHANGED <<corpus, expanded_k, retrieved_chunks, documents, error, steps,
                   searches, result, request_path>>
    /\ UNCHANGED <<cvars, fvars, qvars>>

\* an exception leaves the path operation: the framework answers 500
server_error ==
    /\ pc = "raised"
    /\ request_path # NoValue
    /\ status_code' = 500
    /\ response' = Returned("Internal Server Error")
    /\ pc' = "answered"
    /\ UNCHANGED <<corpus, caller, k, k_docs, expanded_k, retrieved_chunks,
                   documents, error, steps, searches, result, request_path>>
    /\ UNCHANGED <<cvars, fvars, qvars>>

\* With k_docs = 3 the graph of a search request never reaches END (a chunk
\* list with three doc_ids is not empty, and aggregate_documents raises on
\* it), so retrieval_service does not return here.
NextApi ==
    \/ dispatch
    \/ initial_retrieval
    \/ expand_k
    \/ expanded_retrieval
    \/ aggregate_documents
    \/ recursion_limit_reached
    \/ server_error

SpecApi == InitApi /\ [][NextApi]_vars

----------------------------------------------------------------------------
(* Search requests side by side (specification SpecConcurrent) *)

Requests == {1, 2}

\* the query of request r
QueryOf(r) == IF r = 1 THEN "q1" ELSE "q2"

\* the answer lists the vector store may hold for a query
AnswerLists ==
    UNION { { [i \in 1..n |-> <<Chunk(i, f[i]), 1>>] : f \in [1..n -> DocIds] } :
            n \in 0..Cardinality(DocIds) }

\* vector_store.similarity_search_with_score(query, n)
similarity_search_for(query, n) == Take(answers[query], n)

\* the state invoke() builds from its input
\* {"query": query, "k": k_chunks, "k_docs": k_docs}, for search()'s call
\* retrieval_service(query, k_chunks=5, k_docs=3)
invoke_input(query) ==
    [query |-> query, k |-> SearchKChunks, k_docs |-> SearchKDocs,
     expanded_k |-> Unset, retrieved_chunks |-> <<>>, documents |-> <<>>]

\* a request that has not arrived
NotStarted ==
    [pc |-> "idle", steps |-> 0, error |-> "none", searches |-> <<>>,
     result |-> NoReturn,
     state |-> [query |-> NoValue, k |-> Unset, k_docs |-> Unset,
                expanded_k |-> Unset, retrieved_chunks |-> <<>>,
                documents |-> <<>>]]

\* a request whose handler has called retrieval_graph.invoke
Started(query) ==
    [pc |-> "initial_retrieval", steps |-> 0, error |-> "none",
     searches |-> <<>>, result |-> NoReturn, state |-> invoke_input(query)]

\* One step of a request: me holds where the request is and the state its
\* node reads; the value is the same after the node (or the end of the run).
node_step(me) ==
    LET st == me.state
    IN  IF me.pc \in GraphNodes /\ me.steps = RecursionLimit
        THEN [me EXCEPT !.pc = "raised", !.error = "GraphRecursionError"]
        ELSE IF me.pc = "initial_retrieval"
        THEN LET chunks == similarity_search_for(st.query, st.k)
             IN  [me EXCEPT !.state.retrieved_chunks = chunks,
                            !.searches = Append(@, st.k),
                            !.pc = ConditionalEdge(
                                       should_expand(chunks, st.k_docs)),
                            !.steps = @ + 1]
        ELSE IF me.pc = "expand_k"
        THEN [me EXCEPT !.state.expanded_k = expand_k_value(st.k),
                        !.pc = "expanded_retrieval",
                        !.steps = @ + 1]
        ELSE IF me.pc = "expanded_retrieval"
        THEN LET chunks == combined_chunks(
                               st.retrieved_chunks,
                               similarity_search_for(st.query, st.expanded_k))
             IN  [me EXCEPT !.state.retrieved_chunks = chunks,
                            !.searches = Append(@, st.expanded_k),
                            !.pc = ConditionalEdge(
                                       should_expand(chunks, st.k_docs)),
                            !.steps = @ + 1]
        ELSE IF me.pc = "aggregate_documents"
        THEN LET r == aggregate_documents_value(st.retrieved_chunks)
             IN  [me EXCEPT !.state.documents = r.documents,
                            !.error = r.raised,
                            !.pc = IF r.raised = "none" THEN "END" ELSE "raised",
                            !.steps = @ + 1]
        ELSE IF me.pc = "END"
        THEN LET ranking == retrieval_service_value(st.documents, st.k_docs,
                                                    DefaultRrfK)
             IN  [me EXCEPT !.result = Returned(ranking),
                            !.error = search_rest(ranking).raised,
                            !.pc = "raised"]
        ELSE me

\* (mutant of state_of: the state is one module-level object)
state_of_module(r) == 1

\* Where the state of request r lives: invoke() builds a state of its own for
\* every call, and the nodes get it as their argument.
state_of(r) == r

\* what request r sees: where it is, and the state its nodes are handed
View(r) == [inflight[r] EXCEPT !.state = inflight[state_of(r)].state]

\* the answers of the store, and no request yet
InitConcurrent ==
    /\ answers \in [{ QueryOf(r) : r \in Requests } -> AnswerLists]
    /\ inflight = [r \in Requests |-> NotStarted]
    /\ IdleRetrieval
    /\ IdleCitation
    /\ IdleRRF
    /\ IdleHttp

\* GET /search?query=...: search() calls retrieval_service, which calls
\* retrieval_graph.invoke
search_request ==
    \E r \in Requests :
        /\ inflight[r].pc = "idle"
        /\ inflight' = [inflight EXCEPT
                            ![r] = Started(QueryOf(r)),
                            ![state_of(r)].state = invoke_input(QueryOf(r))]
        /\ UNCHANGED answers
        /\ UNCHANGED <<rvars, cvars, fvars, hvars>>

\* a request in flight takes its next step
request_step ==
    \E r \in Requests :
        /\ inflight[r].pc \notin {"idle", "raised"}
        /\ LET after == node_step(View(r))
           IN  inflight' = [inflight EXCEPT
                               ![r] = [after EXCEPT !.state = inflight[r].state],
                               ![state_of(r)].state = after.state]
        /\ UNCHANGED answers
        /\ UNCHANGED <<rvars, cvars, fvars, hvars>>

NextConcurrent ==
    \/ search_request
    \/ request_step

SpecConcurrent == InitConcurrent /\ [][NextConcurrent]_vars

----------------------------------------------------------------------------
(* Claims about one request (specification Spec) *)

Ended == pc \in {"returned", "responded", "raised"}

DistinctDocIds(chunks) ==
    Cardinality({ chunks[i][1].doc_id : i \in 1..Len(chunks) })

\* the vector store can never return k_docs distinct doc_ids
CannotReachTarget == DistinctDocIds(corpus) < k_docs

\* the key under which aggregation is to file an entry
GroupKey(entry) ==
    IF entry[1].doc_id = NoDocId THEN "unknown" ELSE entry[1].doc_id

\* docs holds every entry of chunks exactly once, in order, under its key,
\* and nothing else
IsGrouping(docs, chunks) ==
    /\ \A i \in 1..Len(docs) : \A j \in 1..Len(docs) :
           docs[i].doc_id = docs[j].doc_id => i = j
    /\ { docs[i].doc_id : i \in 1..Len(docs) }
           = { GroupKey(chunks[i]) : i \in 1..Len(chunks) }
    /\ \A i \in 1..Len(docs) :
           LET Mine(e) == GroupKey(e) = docs[i].doc_id
           IN  docs[i].chunks = SelectSeq(chunks, Mine)

\* C1: when the vector store can never return k_docs distinct doc_ids, the
\* request does not fail; it ends after a bounded number of rounds with the
\* aggregation of the chunks collected so far.
C1_ExhaustionEndsInPartialAggregation ==
    CannotReachTarget =>
        /\ pc # "raised"
        /\ Len(searches) <= RecursionLimit
        /\ pc \in {"END", "returned", "responded"}
               => IsGrouping(documents, retrieved_chunks)

\* C2: after a retrieval round the graph goes to expand_k iff fewer than
\* k_docs distinct doc_ids have been accumulated, and to aggregate_documents
\* otherwise; when the first round already yields k_docs distinct doc_ids the
\* only search is the one at breadth k and expand_k never runs.
C2_ExpandIffTooFewDocuments ==
    /\ [][ (pc \in {"initial_retrieval", "expanded_retrieval"} /\ pc' # pc
              /\ error' = "none")
           => /\ pc' \in {"expand_k", "aggregate_documents"}
              /\ pc' = "expand_k"
                   <=> DistinctDocIds(retrieved_chunks') < k_docs ]_vars
    /\ [] ( (searches # <<>> /\ DistinctDocIds(Take(corpus, k)) >= k_docs)
            => /\ searches = <<k>>
               /\ expanded_k = Unset
               /\ pc \notin {"expand_k", "expanded_retrieval"} )

\* C2 witness: an expansion round ran and the round after it found enough
C2_Witness_EnoughAfterExpansion ==
    /\ pc = "aggregate_documents"
    /\ Len(searches) = 2
    /\ k_docs >= 2
    /\ DistinctDocIds(retrieved_chunks) >= k_docs

\* the fused score of the document at position i of a ranking
FusedAt(ranking, i) ==
    fused_scores(documents, DefaultRrfK)[ranking[i].doc_id]

PositionIn(seq, x) == CHOOSE i \in 1..Len(seq) : seq[i] = x

\* C3: when the vector store returns at least one chunk, retrieval_service
\* completes and returns at most k_docs entries of the document map, by fused
\* score non-increasing, equal scores in the order of the map, and no omitted
\* document scores strictly higher than a returned one.
C3_ServiceReturnsTopFusedRanking ==
    (corpus # <<>> /\ Ended) =>
        /\ result # NoReturn
        /\ LET ranking == result[1]
           IN  /\ Len(ranking) <= k_docs
               /\ \A i \in 1..Len(ranking) : \E j \in 1..Len(documents) :
                      ranking[i] = documents[j]
               /\ \A i \in 1..Len(ranking) : \A j \in 1..Len(ranking) :
                      i < j =>
                         /\ ~FracLess(FusedAt(ranking, i), FusedAt(ranking, j))
                         /\ FracEq(FusedAt(ranking, i), FusedAt(ranking, j))
                              => PositionIn(documents, ranking[i])
                                   < PositionIn(documents, ranking[j])
               /\ \A j \in 1..Len(documents) :
                      (\A i \in 1..Len(ranking) : ranking[i] # documents[j])
                         => \A i \in 1..Len(ranking) :
                                ~FracLess(FusedAt(ranking, i),
                                          FusedAt(documents, j))

\* aggregate_documents has run
AggregationRan ==
    \/ pc \in {"END", "returned", "responded"}
    \/ error \in {"TypeError", "AttributeError"}

\* C8: aggregation of a non-empty chunk list completes without error and files
\* every accumulated (chunk, distance) pair exactly once, in accumulation
\* order, under its doc_id, or under "unknown" when it has none.
C8_AggregationGroupsEveryChunk ==
    (AggregationRan /\ retrieved_chunks # <<>>) =>
        /\ error # "TypeError"
        /\ IsGrouping(documents, retrieved_chunks)

\* C9: GET /search answers with one entry {document_id, chunks,
\* citation_score} per document the pipeline returned, by citation score
\* descending, a missing score counting as 0; the handler does not fail.
C9_SearchAnswersByCitationScore ==
    (caller = "search" /\ Ended) =>
        /\ pc = "responded"
        /\ error = "none"
        /\ result # NoReturn
        /\ response # NoReturn
        /\ LET ranking == result[1]
               answer == response[1]
           IN  /\ Len(answer) = Len(ranking)
               /\ \A j \in 1..Len(ranking) : \E i \in 1..Len(answer) :
                      /\ answer[i].document_id = ranking[j].doc_id
                      /\ answer[i].chunks = ranking[j].chunks
               /\ \A i \in 1..Len(answer) : \A j \in 1..Len(answer) :
                      i < j => answer[i].citation_score
                                   >= answer[j].citation_score

\* C17: the n-th expansion round searches at breadth k + 25 * n, so the
\* breadth grows by 25 from each retrieval round to the next.
C17_BreadthGrowsByStep ==
    \A i \in 1..Len(searches) :
        /\ searches[i] = k + ExpandStep * (i - 1)
        /\ i > 1 => searches[i] > searches[i - 1]

\* the chunks returned by the searches from round i on, one list after the
\* other
RECURSIVE ReturnedFrom(_)
ReturnedFrom(i) ==
    IF i > Len(searches) THEN <<>>
    ELSE similarity_search_with_score(searches[i]) \o ReturnedFrom(i + 1)

\* how many entries of chunks belong to the document d
ChunkCount(chunks, d) ==
    Cardinality({ i \in 1..Len(chunks) : chunks[i][1].doc_id = d })

\* C18: a retrieval round appends the chunks it returned, in order and
\* duplicates included, to the chunk list and nothing else changes the list;
\* so at aggregation a document has as many chunks as the rounds returned
\* for it.
C18_ChunksOnlyAppended ==
    /\ [][ IF searches' # searches
           THEN retrieved_chunks' =
                    retrieved_chunks
                      \o similarity_search_with_score(searches'[Len(searches')])
           ELSE retrieved_chunks' = retrieved_chunks ]_vars
    /\ [] (retrieved_chunks = ReturnedFrom(1))
    /\ [] (pc = "aggregate_documents" =>
              \A d \in DocIds \cup {NoDocId} :
                  ChunkCount(retrieved_chunks, d) =
                      ChunkCount(ReturnedFrom(1), d))

\* C18 witness: aggregation is entered after an expansion round, with a chunk
\* held twice
C18_Witness_DuplicateKept ==
    /\ pc = "aggregate_documents"
    /\ Len(searches) >= 2
    /\ \E i \in 1..Len(retrieved_chunks) : \E j \in 1..Len(retrieved_chunks) :
           i < j /\ retrieved_chunks[i] = retrieved_chunks[j]

\* the ids should_expand counts in chunks
CountedIds(chunks) == { MetadataDocId(chunks[i]) : i \in 1..Len(chunks) }

\* the keys under which aggregate_documents files the entries of chunks
AggregationKeys(chunks) == { DocIdOrUnknown(chunks[i]) : i \in 1..Len(chunks) }

\* should_expand has answered "enough"
AnsweredEnough ==
    \/ pc \in {"aggregate_documents", "END", "returned", "responded"}
    \/ error \in {"TypeError", "AttributeError"}

\* C21: should_expand counts as many distinct ids in the chunk list as
\* aggregate_documents makes keys, also when chunks lack a doc_id; so once
\* should_expand has answered "enough" the document map has at least k_docs
\* keys and retrieval_service returns exactly k_docs documents.
C21_CountAgreesWithAggregation ==
    /\ Cardinality(CountedIds(retrieved_chunks))
           = Cardinality(AggregationKeys(retrieved_chunks))
    /\ (AnsweredEnough /\ pc # "aggregate_documents") =>
           /\ error # "TypeError"
           /\ Len(documents) = Cardinality(CountedIds(retrieved_chunks))
           /\ Len(documents) >= k_docs
    /\ (AnsweredEnough /\ Ended) =>
           /\ result # NoReturn
           /\ Len(result[1]) = k_docs

----------------------------------------------------------------------------
(* Claims about rrf_score (specification SpecRRF) *)

Occurs(id, ranked) == \E i \in 1..Len(ranked) : ranked[i] = id

\* the sum, over the lists that contain id, of 1 / (kk + rank of id), rank
\* counted from 1
ReciprocalRankSum(id, lists, kk) ==
    LET sum[l \in 0..Len(lists)] ==
            IF l = 0 THEN FracZero
            ELSE IF Occurs(id, lists[l])
                 THEN FracAdd(sum[l - 1], <<1, kk + PositionIn(lists[l], id)>>)
                 ELSE sum[l - 1]
    IN  sum[Len(lists)]

\* C5: rrf_score returns, for exactly the IDs that occur in some list, the sum
\* over the lists containing the ID of 1 / (rrf_k + rank), rank from 1.
C5_RrfScoreIsReciprocalRankSum ==
    rrf_scores # NoReturn =>
        /\ DOMAIN rrf_scores[1] =
               { id \in Ids : \E l \in 1..Len(ranked_lists) :
                                 Occurs(id, ranked_lists[l]) }
        /\ \A id \in DOMAIN rrf_scores[1] :
               FracEq(rrf_scores[1][id],
                      ReciprocalRankSum(id, ranked_lists, rrf_k))

\* C5 witness: scored lists where one ID occurs in two lists at different
\* ranks, one in a single list and one in none
C5_Witness_MixedOccurrence ==
    /\ rrf_scores # NoReturn
    /\ Len(ranked_lists) = 2
    /\ \E a \in Ids : \E b \in Ids : \E c \in Ids :
          /\ Occurs(a, ranked_lists[1]) /\ Occurs(a, ranked_lists[2])
          /\ PositionIn(ranked_lists[1], a) # PositionIn(ranked_lists[2], a)
          /\ Occurs(b, ranked_lists[1]) /\ ~Occurs(b, ranked_lists[2])
          /\ c \notin DOMAIN rrf_scores[1]

\* C6: moving an ID to a strictly better rank in one list, the other lists
\* unchanged, strictly increases its fused score.
C6_PromotionIncreasesScore ==
    promoted # NoValue =>
        FracLess(rrf_before[1][promoted], rrf_scores[1][promoted])

\* C6 witness: the promoted ID also occurs in another list
C6_Witness_PromotedInTwoLists ==
    /\ promoted # NoValue
    /\ Len(ranked_lists) = 2
    /\ Occurs(promoted, ranked_lists[1])
    /\ Occurs(promoted, ranked_lists[2])

----------------------------------------------------------------------------
(* Claims about CitationNetwork (specifications SpecCitation, SpecPageRank) *)

\* get_all_papers()
get_all_papers_value(ns) == ns

NodeSet == { nodes[i] : i \in 1..Len(nodes) }

\* C4: weighted_pagerank returns a score for exactly the papers of the
\* network, each strictly positive (also for a paper nobody cites), and the
\* empty map on the empty network.
C4_PageRankScoresEveryPaper ==
    call[1] = "weighted_pagerank" =>
        /\ Len(ret) = 1
        /\ DOMAIN ret[1] =
               { get_all_papers_value(nodes)[i] : i \in 1..Len(nodes) }
        /\ \A p \in DOMAIN ret[1] : ret[1][p] > 0

\* the references of paper_metadata that are no key of it
UnknownReferences(paper_metadata) ==
    { r \in Papers :
        /\ \E i \in 1..Len(paper_metadata) :
               InSeq(paper_metadata[i].references, r)
        /\ \A i \in 1..Len(paper_metadata) : paper_metadata[i].paper_id # r }

get_citation_count_value(p) ==
    Cardinality({ u \in Papers : <<u, p>> \in edges })

\* C10: get_most_cited_papers(n) returns min(n, number of papers) pairs
\* (paper, in-degree), by in-degree non-increasing, no omitted paper cited
\* more often than a returned one, equal in-degrees in the order the papers
\* were first added; each count is the paper's get_citation_count.
C10_MostCitedPapers ==
    call[1] = "get_most_cited_papers" =>
        LET n == call[2]
            top == ret[1]
        IN  /\ Len(top) = Min2(n, Len(nodes))
            /\ \A i \in 1..Len(top) :
                   /\ top[i][1] \in NodeSet
                   /\ top[i][2] = get_citation_count_value(top[i][1])
            /\ \A i \in 1..Len(top) : \A j \in 1..Len(top) :
                   i < j =>
                      /\ top[i][1] # top[j][1]
                      /\ top[i][2] >= top[j][2]
                      /\ top[i][2] = top[j][2]
                           => PositionIn(nodes, top[i][1])
                                < PositionIn(nodes, top[j][1])
            /\ \A p \in NodeSet :
                   (\A i \in 1..Len(top) : top[i][1] # p)
                      => \A i \in 1..Len(top) :
                             top[i][2] >= get_citation_count_value(p)

\* C10 witness: two returned papers are cited equally often, and a paper is
\* left out
C10_Witness_TieAndCut ==
    /\ call[1] = "get_most_cited_papers"
    /\ Len(ret[1]) = 2
    /\ Len(nodes) = 3
    /\ ret[1][1][2] = ret[1][2][2]
    /\ ret[1][1][2] >= 1

\* the small network A -> {B, C}, B -> {C}, C -> {} with the years 2023, 2019
\* and 2015, and the self-citations selfs
IsSmallNetwork(selfs) ==
    /\ nodes = <<"A", "B", "C">>
    /\ edges = {<<"A", "B">>, <<"A", "C">>, <<"B", "C">>} \cup selfs
    /\ paper_years = [p \in Papers |->
                         IF p = "A" THEN 2023 ELSE IF p = "B" THEN 2019 ELSE 2015]

\* weighted_pagerank returned scores
Scored == call[1] = "weighted_pagerank" /\ Len(ret) = 1

\* C11: on the small network with the years 2023, 2019, 2015,
\* weighted_pagerank gives score(C) > score(B) > score(A), and the first paper
\* of get_most_cited_papers(1) holds the maximum score.
C11_SmallNetworkOrder ==
    (IsSmallNetwork({}) /\ call[1] = "weighted_pagerank") =>
        /\ Len(ret) = 1
        /\ DOMAIN ret[1] = Papers
        /\ ret[1]["C"] > ret[1]["B"]
        /\ ret[1]["B"] > ret[1]["A"]
        /\ LET most_cited == get_most_cited_papers_value(nodes, edges, 1)[1][1]
           IN  \A p \in Papers : ret[1][most_cited] >= ret[1][p]

\* C11 witness: the small network has been scored
C11_Witness_SmallNetworkScored ==
    /\ IsSmallNetwork({})
    /\ Scored
    /\ call[2] = 2026

\* C12: adding the self-citation A -> A to the small network strictly
\* decreases score(A), and score(C) > score(B) > score(A) still holds.
C12_SelfCitationLowersScore ==
    (IsSmallNetwork({<<"A", "A">>}) /\ call[1] = "weighted_pagerank") =>
        LET without == weighted_pagerank_value(nodes, edges \ {<<"A", "A">>},
                                               paper_years, call[2])
        IN  /\ Len(ret) = 1
            /\ without.raised = "none"
            /\ ret[1]["A"] < without.scores["A"]
            /\ ret[1]["C"] > ret[1]["B"]
            /\ ret[1]["B"] > ret[1]["A"]

\* C13: on a non-empty network the scores weighted_pagerank returns are all
\* non-negative and sum to 1.0, within 1e-6.
C13_ScoresSumToOne ==
    (call[1] = "weighted_pagerank" /\ nodes # <<>>) =>
        /\ Len(ret) = 1
        /\ \A p \in DOMAIN ret[1] : ret[1][p] >= 0
        /\ Abs(IntSum(DOMAIN ret[1], ret[1]) - Scale) <= Times(Scale, Tol)

\* C15: a GET request to /health is answered with status 200 and the body
\* {"status": "ok"}.
C15_HealthAnswersOk ==
    (request_path = "/health" /\ pc = "answered") =>
        /\ status_code = 200
        /\ response = Returned(health_check_value)

\* request r after n steps when no other request is in flight
RECURSIVE Alone(_, _)
Alone(r, n) == IF n = 0 THEN Started(QueryOf(r)) ELSE node_step(Alone(r, n - 1))

\* C16: whatever the interleaving of two search requests, each request's
\* breadth, chunk list, document map and outcome are those of some point of
\* its run alone, and the store's answers are only read.
C16_RequestsDoNotInterfere ==
    /\ [] (\A r \in Requests :
              inflight[r].pc # "idle" =>
                 \E n \in 0..(RecursionLimit + 2) : View(r) = Alone(r, n))
    /\ [][answers' = answers]_vars

\* C16 witness: both requests are in the middle of their runs, each holding
\* chunks the other does not
C16_Witness_BothInFlight ==
    /\ \A r \in Requests : inflight[r].pc \in GraphNodes
    /\ inflight[1].state.retrieved_chunks # <<>>
    /\ inflight[2].state.retrieved_chunks # <<>>
    /\ inflight[1].state.retrieved_chunks # inflight[2].state.retrieved_chunks
    /\ Len(inflight[1].searches) = 2
    /\ Len(inflight[2].searches) = 1

\* the weight C19 gives the edge (u, v): 1.0, times self_citation_penalty iff
\* u = v, times 1 + recency_boost / (1 + max(current_year - year(v), 0)) iff
\* v has a recorded year
ClaimedWeight(u, v, current_year) ==
    LET penalty == IF u = v THEN SelfCitationPenalty ELSE <<1, 1>>
        years_old == IF current_year - paper_years[v] > 0
                     THEN current_year - paper_years[v] ELSE 0
        recency == IF v \in DOMAIN paper_years
                   THEN FracAdd(<<1, 1>>,
                                <<RecencyBoost[1], RecencyBoost[2] * (1 + years_old)>>)
                   ELSE <<1, 1>>
    IN  <<penalty[1] * recency[1], penalty[2] * recency[2]>>

\* C19: the graph weighted_pagerank scores has exactly the edges of the
\* citation graph, each weighted 1.0, times the self-citation penalty iff it
\* is a self-citation, times the recency factor iff the cited paper has a
\* recorded year.
C19_EdgeWeights ==
    call[1] = "weighted_pagerank" =>
        /\ weighted_graph # NoReturn
        /\ DOMAIN weighted_graph[1] = edges
        /\ \A e \in edges :
               FracEq(weighted_graph[1][e], ClaimedWeight(e[1], e[2], call[2]))

\* C19 witness: the scored network has a self-citation of a paper published
\* after current_year, a citation of a paper without a year and a citation
\* of an older paper
C19_Witness_AllKindsOfEdges ==
    /\ call[1] = "weighted_pagerank"
    /\ weighted_graph # NoReturn
    /\ \E e \in edges : /\ e[1] = e[2]
                         /\ e[2] \in DOMAIN paper_years
                         /\ paper_years[e[2]] > call[2]
    /\ \E e \in edges : e[1] # e[2] /\ e[2] \notin DOMAIN paper_years
    /\ \E e \in edges : /\ e[1] # e[2]
                         /\ e[2] \in DOMAIN paper_years
                         /\ paper_years[e[2]] < call[2]

\* C20: weighted_pagerank leaves the nodes, the edges and paper_years as they
\* were and stores no weight on the citation graph, so the graph queries and
\* a second weighted_pagerank call with the same arguments answer as before.
C20_PageRankLeavesNetworkUnchanged ==
    /\ [][ call'[1] = "weighted_pagerank" =>
             /\ nodes' = nodes
             /\ edges' = edges
             /\ paper_years' = paper_years
             /\ edge_attr' = edge_attr
             /\ \A n \in 0..MaxN :
                    get_most_cited_papers_value(nodes', edges', n)
                        = get_most_cited_papers_value(nodes, edges, n) ]_vars
    /\ [] (DOMAIN edge_attr = edges
             /\ \A e \in edges : "weight" \notin DOMAIN edge_attr[e])
    /\ [] ((call[1] = "weighted_pagerank" /\ Len(ret) = 1) =>
              ret[1] = weighted_pagerank_value(nodes, edges, paper_years,
                                               call[2]).scores)

\* C20 witness: a network with citations and years has been scored
C20_Witness_ScoredWithEdges ==
    /\ call[1] = "weighted_pagerank"
    /\ Len(ret) = 1
    /\ Cardinality(edges) >= 2
    /\ DOMAIN paper_years # {}

====
